---- MODULE Spec2Model ----
(***************************************************************************)
(* PyDune/physics/turbulent_flow/andreotti2009.py: linear response of a    *)
(* turbulent boundary layer capped by a stratified free atmosphere.        *)
(*                                                                         *)
(* Numbers.  Heights and parameters (eta, eta_0, eta_H, Kappa, max_z, Fr,  *)
(* eta_B) are exact rationals <<n, d>>, d > 0, in lowest terms; <<0, 0>>   *)
(* is the non-finite rational (a division by zero).  The complex values    *)
(* the code computes with (the state X, the entries of P, S, b, pars,      *)
(* coeffs) are kept in exact arithmetic reduced modulo the prime Modulus,  *)
(* Modulus = 3 (mod 4): pairs <<a, b>> standing for a + b*i in the field   *)
(* GF(Modulus^2).  Every identity of exact complex arithmetic holds there, *)
(* and a value is 0 there only when the exact value is 0 or has a          *)
(* numerator divisible by Modulus.  NaN is the non-finite complex value;   *)
(* it absorbs every operation, as inf/nan do in numpy.                     *)
(***************************************************************************)
EXTENDS Integers, Sequences, FiniteSets, TLC

VARIABLES pc, args, max_z, sys, X0_vec, i, ivp, Results, To_apply, b, pars,
          coeffs, out, kappa_log, eta_log, calls, memo, stall, q1_in, q1_out

vars == <<pc, args, max_z, sys, X0_vec, i, ivp, Results, To_apply, b, pars,
          coeffs, out, kappa_log, eta_log, calls, memo, stall, q1_in, q1_out>>

\* ------------------------------------------------------------- bounds
\* Steps the integrator takes from 0 to max_z.
NSteps == 2
\* Calls of calculate_solution in one behaviour.
MaxCalls == 2
\* Longest eta_B array handed to q1.
MaxLen == 3

\* ---------------------------------------------------------- rationals
Abs(n) == IF n < 0 THEN -n ELSE n

RECURSIVE GCD(_, _)
GCD(m, n) == IF n = 0 THEN m ELSE GCD(n, m % n)

RNaN == <<0, 0>>
Rat(n, d) ==
    IF d = 0 THEN RNaN
    ELSE LET g == GCD(Abs(n), Abs(d))
             s == IF d < 0 THEN -1 ELSE 1
         IN  <<(s * n) \div g, (s * d) \div g>>
RInt(n) == <<n, 1>>
RFinite(x) == x[2] # 0
RAdd(x, y) == IF RFinite(x) /\ RFinite(y)
              THEN Rat(x[1] * y[2] + y[1] * x[2], x[2] * y[2]) ELSE RNaN
RSub(x, y) == IF RFinite(x) /\ RFinite(y)
              THEN Rat(x[1] * y[2] - y[1] * x[2], x[2] * y[2]) ELSE RNaN
RMul(x, y) == IF RFinite(x) /\ RFinite(y)
              THEN Rat(x[1] * y[1], x[2] * y[2]) ELSE RNaN
RDiv(x, y) == IF RFinite(x) /\ RFinite(y)
              THEN Rat(x[1] * y[2], x[2] * y[1]) ELSE RNaN
RNeg(x) == IF RFinite(x) THEN <<-x[1], x[2]>> ELSE RNaN
RLt(x, y) == RFinite(x) /\ RFinite(y) /\ x[1] * y[2] < y[1] * x[2]
RLe(x, y) == RFinite(x) /\ RFinite(y) /\ x[1] * y[2] <= y[1] * x[2]

\* The square root of a rational: exact when numerator and denominator are
\* perfect squares, non-finite (numpy's nan) for a negative real argument.
IsSquare(n) == \E k \in 0..n : k * k = n
ISqrt(n) == CHOOSE k \in 0..n : k * k = n
RSqrt(x) == IF RFinite(x) /\ x[1] >= 0 /\ IsSquare(x[1]) /\ IsSquare(x[2])
            THEN <<ISqrt(x[1]), ISqrt(x[2])>> ELSE RNaN

\* -------------------------------------------- complex values, GF(p^2)
Modulus == 8000 * 4 + 3
Mod(a) == a % Modulus
NaN == <<-1, -1>>
Finite(z) == z # NaN

RECURSIVE ModPow(_, _)
ModPow(a, e) ==
    IF e = 0 THEN 1
    ELSE LET h == ModPow(a, e \div 2)
             s == Mod(h * h)
         IN  IF e % 2 = 1 THEN Mod(s * a) ELSE s
\* The inverses modulo Modulus (Fermat), tabulated once.
InvTable == [a \in 1..(Modulus - 1) |-> ModPow(a, Modulus - 2)]
ModInv(a) == InvTable[Mod(a)]

CZero == <<0, 0>>
COne == <<1, 0>>
CI == <<0, 1>>
CReal(n) == <<Mod(n), 0>>
CRat(x) == IF RFinite(x) /\ Mod(x[2]) # 0
           THEN <<Mod(Mod(x[1]) * ModInv(x[2])), 0>> ELSE NaN
CAdd(x, y) == IF Finite(x) /\ Finite(y)
              THEN <<Mod(x[1] + y[1]), Mod(x[2] + y[2])>> ELSE NaN
CNeg(x) == IF Finite(x)
           THEN <<Mod(Modulus - x[1]), Mod(Modulus - x[2])>> ELSE NaN
CSub(x, y) == CAdd(x, CNeg(y))
CMul(x, y) ==
    IF Finite(x) /\ Finite(y)
    THEN <<Mod(Mod(x[1] * y[1]) + Modulus - Mod(x[2] * y[2])),
           Mod(Mod(x[1] * y[2]) + Mod(x[2] * y[1]))>>
    ELSE NaN
\* 1/z = conj(z)/|z|^2; a division by zero is non-finite.
CInv(x) ==
    IF Finite(x) /\ x # CZero
    THEN LET n == ModInv(Mod(Mod(x[1] * x[1]) + Mod(x[2] * x[2])))
         IN  <<Mod(x[1] * n), Mod((Modulus - x[2]) * n)>>
    ELSE NaN
CDiv(x, y) == CMul(x, CInv(y))
\* A complex value with rational real and imaginary parts.
CComplex(re, im) == CAdd(CRat(re), CMul(CI, CRat(im)))
\* np.real
CRe(x) == IF Finite(x) THEN <<x[1], 0>> ELSE NaN

\* Vectors are tuples of complex values.
VAdd(u, v) == [j \in DOMAIN u |-> CAdd(u[j], v[j])]
VSub(u, v) == [j \in DOMAIN u |-> CSub(u[j], v[j])]
VScale(c, u) == [j \in DOMAIN u |-> CMul(c, u[j])]
RECURSIVE CSum(_)
CSum(s) == IF s = <<>> THEN CZero ELSE CAdd(Head(s), CSum(Tail(s)))
\* np.dot of two vectors (no conjugation)
VDot(u, v) == CSum([j \in DOMAIN u |-> CMul(u[j], v[j])])
\* np.dot of a matrix (a tuple of rows) and a vector
MDot(M, v) == [r \in DOMAIN M |-> VDot(M[r], v)]
VFinite(u) == \A j \in DOMAIN u : Finite(u[j])
Zero4 == <<CZero, CZero, CZero, CZero>>

\* ----------------------------------------------------- closure provider
\* fourriere2010_unbounded.mu / mu_prime (imported, not part of this file):
\* the law of the wall, mu = ln(1 + eta/eta_0)/Kappa, whose logarithm is
\* taken here as its [1/1] Pade approximant 2x/(2 + x), and its derivative
\* mu_prime = 1/(Kappa*(eta + eta_0)).  Kappa defaults to 0.4.
KappaDefault == <<2, 5>>
mu(eta, eta_0, Kappa) ==
    LET x == CDiv(CRat(eta), CRat(eta_0))
    IN  CDiv(CDiv(CMul(CReal(2), x), CAdd(CReal(2), x)), CRat(Kappa))
mu_prime(eta, eta_0, Kappa) ==
    CInv(CMul(CRat(Kappa), CRat(RAdd(eta, eta_0))))

\* ------------------------------------------------ system matrix builder
tp_of(eta, eta_H) == RSub(RInt(1), RDiv(eta, eta_H))

P(eta, eta_H, eta_0, Kappa) ==
    LET tp == CRat(tp_of(eta, eta_H))
        m  == mu(eta, eta_0, Kappa)
        mp == mu_prime(eta, eta_0, Kappa)
        mI == CNeg(CI)
    IN  << <<CZero, mI, CDiv(mp, CMul(CReal(2), tp)), CZero>>,
           <<mI, CZero, CZero, CZero>>,
           <<CAdd(CMul(CI, m), CDiv(CMul(CReal(4), tp), mp)), mp, CZero, CI>>,
           <<CZero, CMul(mI, m), CI, CZero>> >>

S(eta, eta_H, eta_0, Kappa) ==
    LET mp == mu_prime(eta, eta_0, Kappa)
    IN  <<CSub(CMul(CRat(Kappa), CMul(mp, mp)),
               CDiv(mp, CMul(CReal(2), CRat(eta_H)))), CZero, CZero, CZero>>

S_delta(eta, eta_H, eta_0, Kappa) ==
    LET tp == CRat(tp_of(eta, eta_H))
        mp == mu_prime(eta, eta_0, Kappa)
        eH == CRat(eta_H)
    IN  <<CDiv(CNeg(CMul(CRat(eta), mp)),
               CMul(CMul(CReal(2), CMul(eH, eH)), tp)), CZero, CZero, CZero>>

\* ------------------------------------------------ vector field evaluator
func(eta, X, eta_H, eta_0, Kappa) == MDot(P(eta, eta_H, eta_0, Kappa), X)
func1(eta, X, eta_H, eta_0, Kappa) ==
    VAdd(MDot(P(eta, eta_H, eta_0, Kappa), X), S(eta, eta_H, eta_0, Kappa))
func_delta(eta, X, eta_H, eta_0, Kappa) ==
    VAdd(MDot(P(eta, eta_H, eta_0, Kappa), X), S_delta(eta, eta_H, eta_0, Kappa))


\* --------------------------------------------- radiation condition, _q1
\* Complex values with rational parts, [re, im]: q1 takes square roots, kept
\* exact.  An array is [scalar |-> FALSE, vals |-> <<...>>], a scalar
\* [scalar |-> TRUE, vals |-> <<e>>].
QZero == [re |-> RInt(0), im |-> RInt(0)]
QNaN == [re |-> RNaN, im |-> RNaN]
QMake(re, im) == IF RFinite(re) /\ RFinite(im) THEN [re |-> re, im |-> im] ELSE QNaN
InvSq(e) == RDiv(RInt(1), RMul(e, e))
\* lambda x: -np.sqrt(1 - 1/x**2), x an element of the complex eta_B + 0j:
\* the complex square root of a negative real is imaginary.
q1_above(x) ==
    LET r == RSub(RInt(1), InvSq(x))
    IN  IF RLt(r, RInt(0)) THEN QMake(RInt(0), RNeg(RSqrt(RNeg(r))))
        ELSE QMake(RNeg(RSqrt(r)), RInt(0))
\* 1j*np.sqrt(1/eta_B**2 - 1), e an element of the real eta_B: the real square
\* root of a negative number is nan.
q1_below(e) == QMake(RInt(0), RSqrt(RSub(InvSq(e), RInt(1))))

\* The positions of an array a condition selects, in order.
RECURSIVE Selected(_, _)
Selected(cond, n) ==
    IF n = 0 THEN <<>>
    ELSE IF cond[n] THEN Append(Selected(cond, n - 1), n) ELSE Selected(cond, n - 1)

\* np.piecewise(eta_B + 0j, [eta_B > 1, eta_B <= 1], [f1, f2]): y starts as
\* zeros; for each condition with a selected element, y[cond] = f(x[cond]).
\* f1 maps the selected elements; f2 ignores its argument and returns the
\* formula of the whole eta_B, which boolean-mask assignment takes only when
\* it has one value or as many values as the mask selects.
q1(eta_B) ==
    LET v    == eta_B.vals
        n    == Len(v)
        gt   == [j \in 1..n |-> RLt(RInt(1), v[j])]
        le   == [j \in 1..n |-> RLe(v[j], RInt(1))]
        selG == Selected(gt, n)
        selL == Selected(le, n)
        y1   == [j \in 1..n |-> IF gt[j] THEN q1_above(v[j]) ELSE QZero]
        full == [j \in 1..n |-> q1_below(v[j])]
        k    == Len(selL)
    IN  IF k = 0 THEN [err |-> "", vals |-> y1]
        ELSE IF n = k
             THEN [err |-> "", vals |-> [j \in 1..n |-> full[j]]]
        ELSE IF n = 1
             THEN [err |-> "", vals |-> [j \in 1..n |-> IF le[j] THEN full[1] ELSE y1[j]]]
        ELSE [err |-> "ValueError", vals |-> <<>>]

\* ------------------------------------------------------------ _solve_system
\* Kappa as calculate_solution hands it to _solve_system.
SolveSystemKappa(Kappa) == <<2, 5>>

X0_of(eta_0, Kappa) ==
    << <<CNeg(mu_prime(RInt(0), eta_0, Kappa)), CZero, CZero, CZero>>,
       <<CZero, CZero, COne, CZero>>,
       <<CZero, CZero, CZero, COne>>,
       <<CZero, CZero, CZero, CZero>> >>

\* Faulty variant: the S_delta-forced field given to the last of the four states
Driver_last(idx) == IF idx = 0 THEN "func1" ELSE IF idx = 3 THEN "func_delta" ELSE "func"

\* The right-hand side solve_ivp is given for the idx-th (from 0) initial state.
Driver(idx) == IF idx = 0 THEN "func1" ELSE IF idx = 4 THEN "func_delta" ELSE "func"

Field(fun, eta, X, a) ==
    CASE fun = "func1" -> func1(eta, X, a.eta_H, a.eta_0, a.Kappa)
      [] fun = "func_delta" -> func_delta(eta, X, a.eta_H, a.eta_0, a.Kappa)
      [] OTHER -> func(eta, X, a.eta_H, a.eta_0, a.Kappa)

\* scipy's solve_ivp, as an explicit two-stage Runge-Kutta method (Heun) of
\* NSteps equal steps over t_span: like the stages of DOP853 it evaluates the
\* right-hand side at the start and at the end of each step.
StepSize(t_span) == RDiv(RSub(t_span[2], t_span[1]), RInt(NSteps))
TimeAt(t_span, k) == RAdd(t_span[1], RMul(RInt(k), StepSize(t_span)))
RKStep(fun, t, h, y, a) ==
    LET k1 == Field(fun, t, y, a)
        k2 == Field(fun, RAdd(t, h), VAdd(y, VScale(CRat(h), k1)), a)
    IN  VAdd(y, VScale(CRat(RDiv(h, RInt(2))), VAdd(k1, k2)))

\* OdeSolution: the dense output at the k-th grid height; past the height the
\* integration reached, the last interpolant extrapolates (here: its end value).
sol(X, k) == IF k + 1 <= Len(X.ys) THEN X.ys[k + 1] ELSE X.ys[Len(X.ys)]
sol_max_z(X) == sol(X, NSteps)

\* ------------------------------------------------------- calculate_solution
\* Faulty variant: the default cutoff at the singular height itself
DefaultMaxZ_at_eta_H(eta_H) == eta_H

DefaultMaxZ(eta_H) == RMul(<<9999, 10000>>, eta_H)

Tail3(y) == <<y[2], y[3], y[4]>>
Cross(u, v) == <<CSub(CMul(u[2], v[3]), CMul(u[3], v[2])),
                 CSub(CMul(u[3], v[1]), CMul(u[1], v[3])),
                 CSub(CMul(u[1], v[2]), CMul(u[2], v[1]))>>
\* The determinant of the 3x3 matrix with columns c.
Det3(c) == VDot(c[1], Cross(c[2], c[3]))
\* np.linalg.inv of the matrix with columns c, as its rows: adjugate over
\* determinant.
Inv3(c) ==
    LET d == CInv(Det3(c))
    IN  <<VScale(d, Cross(c[2], c[3])), VScale(d, Cross(c[3], c[1])),
          VScale(d, Cross(c[1], c[2]))>>

\* b, the boundary conditions at max_z
Boundary(mz, eta_0, eta_H, eta_B, Fr, Kappa) ==
    LET m == mu(mz, eta_0, Kappa)
        q == q1([scalar |-> TRUE, vals |-> <<eta_B>>]).vals[1]
    IN  <<CMul(CI, m),
          CInv(CRat(mz)),
          CMul(CMul(m, m), CAdd(CComplex(q.re, q.im),
                                CInv(CMul(CRat(eta_H), CMul(CRat(Fr), CRat(Fr))))))>>

\* To_apply: one column per result, the last three components at max_z
ToApply(R) == [r \in 1..Len(R) |-> Tail3(sol_max_z(R[r]))]
\* To_apply[:, :-1], the matrix inverted, and To_apply[:, -1], the column
\* subtracted from b
MActive(T) == SubSeq(T, 1, Len(T) - 1)
MSubtracted(T) == T[Len(T)]

\* Faulty variant: the last coefficient left as pars[0], not its inverse
Normalise_no_inverse(p) == <<COne, CDiv(p[2], p[1]), CDiv(p[3], p[1]), p[1]>>

Normalise(p) == <<COne, CDiv(p[2], p[1]), CDiv(p[3], p[1]), CInv(p[1])>>

\* np.sum(np.array([X.sol(eta) for X in Results])*coeffs_expanded, axis=0)
Combine(R, c, k) ==
    [comp \in 1..4 |-> CSum([r \in 1..Len(R) |-> CMul(sol(R[r], k)[comp], c[r])])]


\* ------------------------------------------------------------------ inputs
Eta0s == {RInt(1)}
EtaHs == {RInt(2), RInt(4)}
EtaBs == {<<3, 5>>, <<5, 3>>}
Frs == {RInt(1)}
Kappas == {<<2, 5>>, <<1, 2>>}
\* max_z=None, or a height
MaxZs == {[given |-> FALSE, val |-> RInt(0)],
          [given |-> TRUE, val |-> RInt(1)],
          [given |-> TRUE, val |-> RInt(4)]}
\* eta_FA, k_xi of streamfunction_FA; k_x is 0, where exp(1j*k_x) is 1
EtaFAs == {RInt(5)}
KXis == {RInt(1)}
\* elements of the eta_B handed to q1
Q1Elems == {<<3, 5>>, <<4, 5>>, RInt(1), <<5, 4>>, <<5, 3>>}

NoArgs == [eta_0 |-> RInt(0), eta_H |-> RInt(0), eta_B |-> RInt(0), Fr |-> RInt(0),
           max_z |-> [given |-> FALSE, val |-> RInt(0)], Kappa |-> RInt(0)]
NoSys == [eta_0 |-> RInt(0), eta_H |-> RInt(0), Kappa |-> RInt(0), max_z |-> RInt(0)]
NoIvp == [fun |-> "", t_span |-> <<RInt(0), RInt(0)>>, y0 |-> Zero4, args |-> NoSys,
          k |-> 0, ys |-> <<>>]
NoOut == [kind |-> "", arg |-> <<>>, val |-> <<>>]
NoMemo == [set |-> FALSE, args |-> NoArgs, outcome |-> "", coeffs |-> <<>>]
NoStall == [idx |-> -1, step |-> 0]
NoQ1 == [err |-> "", vals |-> <<>>]

\* The integrations that cannot reach max_z: solve_ivp gives up ("required
\* step size is less than spacing between numbers") and returns a result with
\* success = False.  Which one does, and where, is fixed by the numerical
\* environment, not by this module: a constant of each behaviour.
Stalls == {NoStall, [idx |-> 0, step |-> 0], [idx |-> 2, step |-> NSteps - 1]}

Init ==
    /\ pc = "idle"
    /\ args = NoArgs
    /\ max_z = RInt(0)
    /\ sys = NoSys
    /\ X0_vec = <<>>
    /\ i = 0
    /\ ivp = NoIvp
    /\ Results = <<>>
    /\ To_apply = <<>>
    /\ b = <<>>
    /\ pars = <<>>
    /\ coeffs = <<>>
    /\ out = NoOut
    /\ kappa_log = {}
    /\ eta_log = {}
    /\ calls = 0
    /\ memo = NoMemo
    /\ stall \in Stalls
    /\ q1_in = [scalar |-> FALSE, vals |-> <<>>]
    /\ q1_out = NoQ1

q1vars == <<q1_in, q1_out>>

\* calculate_solution is entered: max_z takes its default, _solve_system is
\* called and builds X0_vec.
calculate_solution(eta_0, eta_H, eta_B, Fr, mz, Kappa) ==
    /\ pc \in {"idle", "returned", "LinAlgError"}
    /\ calls < MaxCalls
    /\ calls' = calls + 1
    /\ args' = [eta_0 |-> eta_0, eta_H |-> eta_H, eta_B |-> eta_B, Fr |-> Fr,
                max_z |-> mz, Kappa |-> Kappa]
    /\ max_z' = IF mz.given THEN mz.val ELSE DefaultMaxZ(eta_H)
    /\ sys' = [eta_0 |-> eta_0, eta_H |-> eta_H, Kappa |-> SolveSystemKappa(Kappa),
               max_z |-> max_z']
    /\ X0_vec' = X0_of(sys'.eta_0, sys'.Kappa)
    /\ kappa_log' = {sys'.Kappa}
    /\ eta_log' = {}
    /\ i' = 0
    /\ Results' = <<>>
    /\ ivp' = NoIvp
    /\ To_apply' = <<>>
    /\ b' = <<>>
    /\ pars' = <<>>
    /\ coeffs' = <<>>
    /\ out' = NoOut
    /\ pc' = "loop"
    /\ UNCHANGED <<memo, stall, q1vars>>

\* One iteration of the loop over X0_vec starts: solve_ivp is called with the
\* driver the index selects.
solve_ivp_begin ==
    /\ pc = "loop"
    /\ i < Len(X0_vec)
    /\ ivp' = [fun |-> Driver(i), t_span |-> <<RInt(0), sys.max_z>>,
               y0 |-> X0_vec[i + 1],
               args |-> [sys EXCEPT !.max_z = RInt(0)],
               k |-> 0, ys |-> <<X0_vec[i + 1]>>]
    /\ pc' = "ivp"
    /\ UNCHANGED <<args, max_z, sys, X0_vec, i, Results, To_apply, b, pars, coeffs,
                   out, kappa_log, eta_log, calls, memo, stall, q1vars>>

Stalled == stall.idx = i /\ stall.step = ivp.k

\* One step of the integrator.
solve_ivp_step ==
    /\ pc = "ivp"
    /\ ivp.k < NSteps
    /\ ~Stalled
    /\ LET h == StepSize(ivp.t_span)
           t == TimeAt(ivp.t_span, ivp.k)
           y == RKStep(ivp.fun, t, h, ivp.ys[Len(ivp.ys)], ivp.args)
       IN  /\ ivp' = [ivp EXCEPT !.k = @ + 1, !.ys = Append(@, y)]
           /\ eta_log' = eta_log \cup {t, RAdd(t, h)}
           /\ kappa_log' = kappa_log \cup {ivp.args.Kappa}
    /\ UNCHANGED <<pc, args, max_z, sys, X0_vec, i, Results, To_apply, b, pars,
                   coeffs, out, calls, memo, stall, q1vars>>

\* solve_ivp returns, at max_z or where it gave up; the result is appended
\* whatever its status.
solve_ivp_end ==
    /\ pc = "ivp"
    /\ ivp.k = NSteps \/ Stalled
    /\ Results' = Append(Results, [fun |-> ivp.fun, t_span |-> ivp.t_span,
                                   y0 |-> ivp.y0, args |-> ivp.args,
                                   success |-> (ivp.k = NSteps), ys |-> ivp.ys])
    /\ i' = i + 1
    /\ ivp' = NoIvp
    /\ pc' = "loop"
    /\ UNCHANGED <<args, max_z, sys, X0_vec, To_apply, b, pars, coeffs, out,
                   kappa_log, eta_log, calls, memo, stall, q1vars>>

\* _solve_system returns; the boundary conditions are applied and the two
\* closures returned, or np.linalg.inv raises LinAlgError (a matrix that is
\* not square, or singular).
apply_boundary_conditions ==
    /\ pc = "loop"
    /\ i = Len(X0_vec)
    /\ LET T == ToApply(Results)
           bb == Boundary(max_z, args.eta_0, args.eta_H, args.eta_B, args.Fr, args.Kappa)
           M == MActive(T)
           ok == Len(M) = 3 /\ Det3(M) # CZero
           p == IF ok THEN MDot(Inv3(M), VSub(bb, MSubtracted(T))) ELSE <<>>
       IN  /\ To_apply' = T
           /\ b' = bb
           /\ pars' = p
           /\ coeffs' = IF ok THEN Normalise(p) ELSE <<>>
           /\ pc' = IF ok THEN "returned" ELSE "LinAlgError"
    /\ kappa_log' = kappa_log \cup {args.Kappa}
    /\ memo' = IF memo.set THEN memo
               ELSE [set |-> TRUE, args |-> args, outcome |-> pc', coeffs |-> coeffs']
    /\ UNCHANGED <<args, max_z, sys, X0_vec, i, ivp, Results, out, eta_log, calls,
                   stall, q1vars>>

\* Faulty variant: the weighted sum accumulated in place, into the captured coeffs
interpolated_solution_in_place(k) ==
    /\ pc = "returned"
    /\ out' = [kind |-> "interpolated_solution", arg |-> <<k>>,
               val |-> Combine(Results, coeffs, k)]
    /\ coeffs' = VScale(CReal(2), coeffs)
    /\ UNCHANGED <<pc, args, max_z, sys, X0_vec, i, ivp, Results, To_apply, b, pars,
                   kappa_log, eta_log, calls, memo, stall, q1vars>>

\* The returned interpolated_solution, called at the k-th grid height.
interpolated_solution(k) ==
    /\ pc = "returned"
    /\ out' = [kind |-> "interpolated_solution", arg |-> <<k>>,
               val |-> Combine(Results, coeffs, k)]
    /\ UNCHANGED <<pc, args, max_z, sys, X0_vec, i, ivp, Results, To_apply, b, pars,
                   coeffs, kappa_log, eta_log, calls, memo, stall, q1vars>>

\* The stream function at one height eta_FA and the phase k_x = 0.
Psi(eta_FA, k_xi, eta_H, eta_0, c) ==
    LET mu_H == mu(eta_H, eta_0, KappaDefault)
        W == CMul(CMul(CI, mu_H), c[Len(c)])
        Psi_b == CMul(mu_H, CSub(CDiv(CRat(eta_FA), CRat(eta_H)), COne))
        Psi1 == CDiv(W, CMul(CNeg(CI), CRat(eta_H)))
    IN  CRe(CAdd(Psi_b, CMul(CRat(k_xi), Psi1)))

\* The returned streamfunction_FA is called.
streamfunction_FA(eta_FA, k_xi) ==
    /\ pc = "returned"
    /\ out' = [kind |-> "streamfunction_FA", arg |-> <<eta_FA, k_xi>>,
               val |-> <<Psi(eta_FA, k_xi, args.eta_H, args.eta_0, coeffs)>>]
    /\ kappa_log' = kappa_log \cup {KappaDefault}
    /\ UNCHANGED <<pc, args, max_z, sys, X0_vec, i, ivp, Results, To_apply, b, pars,
                   coeffs, eta_log, calls, memo, stall, q1vars>>

Next ==
    \/ \E eta_0 \in Eta0s, eta_H \in EtaHs, eta_B \in EtaBs, Fr \in Frs,
          mz \in MaxZs, Kappa \in Kappas :
          calculate_solution(eta_0, eta_H, eta_B, Fr, mz, Kappa)
    \/ solve_ivp_begin
    \/ solve_ivp_step
    \/ solve_ivp_end
    \/ apply_boundary_conditions
    \/ \E k \in 0..NSteps : interpolated_solution(k)
    \/ \E eta_FA \in EtaFAs, k_xi \in KXis : streamfunction_FA(eta_FA, k_xi)

Spec == Init /\ [][Next]_vars


\* _q1 called on its own, with a scalar or an array.
q1_call(x) ==
    /\ q1_in' = x
    /\ q1_out' = q1(x)
    /\ UNCHANGED <<pc, args, max_z, sys, X0_vec, i, ivp, Results, To_apply, b, pars,
                   coeffs, out, kappa_log, eta_log, calls, memo, stall>>

RECURSIVE SeqsUpTo(_, _)
SeqsUpTo(E, n) ==
    IF n = 0 THEN {<<>>}
    ELSE LET shorter == SeqsUpTo(E, n - 1)
         IN  shorter \cup {Append(q, e) : q \in shorter, e \in E}
Q1Inputs ==
    {[scalar |-> TRUE, vals |-> <<e>>] : e \in Q1Elems}
    \cup {[scalar |-> FALSE, vals |-> q] : q \in SeqsUpTo(Q1Elems, MaxLen) \ {<<>>}}

InitQ1 == Init /\ stall = NoStall
NextQ1 == \E x \in Q1Inputs : q1_call(x)
SpecQ1 == InitQ1 /\ [][NextQ1]_vars


\* ================================================================= claims
Completed == pc \in {"returned", "LinAlgError"}
Positive(x) == RLt(RInt(0), x)
\* the parameters the specification calls valid
ValidParameters == Positive(args.eta_H) /\ Positive(args.eta_0) /\ RLt(max_z, args.eta_H)
\* every integration of the current call, finished or under way
Integrations == {Results[r] : r \in 1..Len(Results)} \cup
                (IF pc = "ivp" THEN {ivp} ELSE {})

\* C1: every call of _solve_system integrates exactly five initial-value
\* problems, in the order forced [-mu_prime(0),0,0,0], homogeneous [0,0,1,0],
\* homogeneous [0,0,0,1], homogeneous [0,0,0,0], S_delta-forced [0,0,0,0].
C1_FiveProblems ==
    Completed =>
        /\ Len(Results) = 5
        /\ [r \in 1..Len(Results) |-> Results[r].fun]
             = <<"func1", "func", "func", "func", "func_delta">>
        /\ [r \in 1..Len(Results) |-> Results[r].y0]
             = << <<CNeg(mu_prime(RInt(0), sys.eta_0, sys.Kappa)), CZero, CZero, CZero>>,
                  <<CZero, CZero, COne, CZero>>, <<CZero, CZero, CZero, COne>>,
                  Zero4, Zero4 >>

\* C2: the matrix inverted has as columns the two homogeneous unit-vector
\* solutions and the S_delta-forced solution at max_z (last three
\* components), and the column subtracted from b is the forced solution's.
C2_MatchingColumns ==
    Completed =>
        \E h1, h2, d, f \in 1..Len(Results) :
            /\ Results[h1].fun = "func" /\ Results[h1].y0 = <<CZero, CZero, COne, CZero>>
            /\ Results[h2].fun = "func" /\ Results[h2].y0 = <<CZero, CZero, CZero, COne>>
            /\ Results[d].fun = "func_delta"
            /\ Results[f].fun = "func1"
            /\ MActive(To_apply) = <<Tail3(sol_max_z(Results[h1])),
                                     Tail3(sol_max_z(Results[h2])),
                                     Tail3(sol_max_z(Results[d]))>>
            /\ MSubtracted(To_apply) = Tail3(sol_max_z(Results[f]))

\* C3: every evaluation of mu and mu_prime made for a call uses the Kappa the
\* caller gave.
C3_CallerKappa == calls > 0 => kappa_log \subseteq {args.Kappa}

\* C4: a call with invalid parameters (eta_H <= 0, eta_0 <= 0 or
\* max_z >= eta_H) takes no integration step and returns no closures.
C4_DomainError ==
    (calls > 0 /\ ~ValidParameters) =>
        /\ pc # "returned"
        /\ eta_log = {}
        /\ \A X \in Integrations : Len(X.ys) <= 1

\* C5: a call (here: with valid parameters) in which an integration did not
\* reach max_z, or whose matching matrix is singular, does not return the two
\* closures.
C5_FailureSurfaced ==
    (pc = "returned" /\ ValidParameters) =>
        /\ \A r \in 1..Len(Results) : Results[r].success
        /\ Det3(MActive(To_apply)) # CZero

Q1Expected(e) ==
    IF RLt(RInt(1), e)
    THEN [re |-> RNeg(RSqrt(RSub(RInt(1), InvSq(e)))), im |-> RInt(0)]
    ELSE [re |-> RInt(0), im |-> RSqrt(RSub(InvSq(e), RInt(1)))]
C7_PerElement ==
    q1_in.vals # <<>> =>
        /\ q1_out.err = ""
        /\ q1_out.vals = [j \in 1..Len(q1_in.vals) |-> Q1Expected(q1_in.vals[j])]

\* C8: for valid parameters the fourth solution starts from [0,0,0,0], is
\* driven by the homogeneous field, and every state of its integration is the
\* zero vector.
Placeholders == {X \in Integrations : X = ivp /\ i = 3} \cup
                (IF Len(Results) >= 4 THEN {Results[4]} ELSE {})
C8_PlaceholderZero ==
    (calls > 0 /\ ValidParameters) =>
        \A X \in Placeholders :
            /\ X.fun = "func"
            /\ X.y0 = Zero4
            /\ \A k \in 1..Len(X.ys) : X.ys[k] = Zero4
C8_Witness ==
    /\ calls > 0 /\ ValidParameters
    /\ Len(Results) >= 4 /\ Results[4].success /\ Len(Results[4].ys) = NSteps + 1
    /\ Results[2].ys[NSteps + 1] # Zero4

C10_StaysBelowEtaH ==
    calls > 0 =>
        /\ (~args.max_z.given /\ Positive(args.eta_H)) =>
              /\ \A X \in Integrations :
                    X.t_span = <<RInt(0), RMul(<<9999, 10000>>, args.eta_H)>>
              /\ \A eta \in eta_log :
                    RLt(eta, args.eta_H) /\ tp_of(eta, args.eta_H) # RInt(0)
        /\ args.max_z.given =>
              \A X \in Integrations : X.t_span = <<RInt(0), args.max_z.val>>
C10_Witness ==
    /\ pc = "returned" /\ ~args.max_z.given /\ Positive(args.eta_H)
    /\ RMul(<<9999, 10000>>, args.eta_H) \in eta_log
    /\ Len(Results) = 4

====
